---------------------------- MODULE Spec2Model ----------------------------
(***************************************************************************)
(* Model of findifucan/tg-webhook:                                         *)
(*   job_finder.py        the sender: fetch -> filter -> dispatch -> save  *)
(*   telegram_webhook.py  the receiver: POST /notify with HMAC check       *)
(* Strings whose characters matter (signatures) are sequences of           *)
(* one-character strings; the Seen-Set file is a sequence of JSON tokens.  *)
(***************************************************************************)
EXTENDS Naturals, Sequences, FiniteSets, TLC

VARIABLES
    \* ---- job_finder.py: durable state and one run of find_jobs_and_notify
    file,        \* seen_jobs.json: [exists, data], data a sequence of tokens
    now,         \* the value time.time() returns during the current run
    pc,          \* position of the sender process
    conf,        \* WEBHOOK_URL and WEBHOOK_SECRET are both set (this run)
    seen,        \* local `seen`     (find_jobs_and_notify)
    new_seen,    \* local `new_seen`
    any_sent,    \* local `any_sent`
    feedIdx,     \* position of `for feed in FEEDS`
    items,       \* local `items`, the list fetch_from_feed returned
    itemIdx,     \* position of `for job in items`
    wbuf,        \* save_seen: what json.dump still has to write
    \* ---- history of the current run (observation only)
    attempts,    \* id -> number of send_signed_webhook calls for that id
    ok200,       \* ids for which a dispatch returned 200
    non200,      \* ids for which a dispatch returned another status
    fallbacks,   \* the fallback dispatches: sequence of [payload, status]
    fetched,     \* ids fetched so far
    firstHit,    \* index of the first feed that returned a non-empty list, or 0
    lateSent,    \* a posting of a feed after firstHit was dispatched
    \* ---- history across runs (observation only)
    known,       \* ids fetched by the runs before the current one
    owed,        \* ids whose dispatches failed and that never got a 200
    owedStart,   \* owed when the current run started
    crashed,     \* the last run was killed inside save_seen
    \* ---- telegram_webhook.py: one request through notify()
    rsecret,     \* WEBHOOK_SECRET of the receiver ("" when not configured)
    rpc,         \* position of the handler
    body,        \* request.get_data()
    sig,         \* request.headers.get("X-Webhook-Signature")
    trail,       \* steps the handler took for this request, in order
    resp         \* the response: status and body

sender   == <<file, now, pc, conf, seen, new_seen, any_sent, feedIdx, items,
              itemIdx, wbuf>>
runHist  == <<attempts, ok200, non200, fallbacks, fetched, firstHit, lateSent>>
longHist == <<known, owed, owedStart, crashed>>
receiver == <<rsecret, rpc, body, sig, trail, resp>>
vars     == <<sender, runHist, longHist, receiver>>

-----------------------------------------------------------------------------
(* Bounds *)

\* entries one fetch returns (the code keeps parsed.entries[:50])
MaxItems == 2
\* entries one fetch returns in LiveSpec
LiveItems == 1
\* time.time() is modelled by a run clock that stops advancing at MaxClock
MaxClock == 2

-----------------------------------------------------------------------------
(* job_finder.py: configuration and pure helpers *)

\* FEEDS: the configured sources, in order ("you can add more")
FEEDS == <<"feed1", "feed2">>

KEYWORDS ==
    {"ceh", "certified ethical hacker", "fresher", "entry level", "junior",
     "trainee", "cyber", "security", "information security", "infosec",
     "threat", "vulnerability", "analyst", "soc", "penetration",
     "penetration tester", "security engineer"}

FALLBACK_QA == "FALLBACK_QA"

OK == 200

\* statuses send_signed_webhook can return: r.status_code, or 0 on exception
Statuses == {200, 500, 0}

\* The upstream postings: id -> words of title + " " + summary.
Catalogue ==
    [id \in {"a", "b", "c", ""} |->
        CASE id = "a" -> <<"CEH", "Fresher", "Security", "Analyst">>
          [] id = "b" -> <<"Junior", "SOC", "Trainee">>
          [] id = "c" -> <<"Pastry", "Chef">>
          [] id = ""  -> <<"Security", "Engineer">>]

Ids == DOMAIN Catalogue

\* str.lower() on the words the catalogue uses
LowerWord(w) ==
    CASE w = "CEH"      -> "ceh"
      [] w = "Fresher"  -> "fresher"
      [] w = "Security" -> "security"
      [] w = "Analyst"  -> "analyst"
      [] w = "Junior"   -> "junior"
      [] w = "SOC"      -> "soc"
      [] w = "Trainee"  -> "trainee"
      [] w = "Pastry"   -> "pastry"
      [] w = "Chef"     -> "chef"
      [] w = "Engineer" -> "engineer"
      [] OTHER          -> w

\* looks_relevant: some keyword occurs in the lowercased text
looks_relevant(text) ==
    \E i \in 1..Len(text) : LowerWord(text[i]) \in KEYWORDS

\* lists fetch_from_feed can return, of at most `most` entries
Results(most) == UNION {[1..n -> Ids] : n \in 0..most}

EmptyMap == [x \in {} |-> 0]

Put(m, k, v) == [x \in DOMAIN m \cup {k} |-> IF x = k THEN v ELSE m[x]]

\* ---- the Seen-Set file: json.dump / json.load over tokens
LBrace == [t |-> "{", k |-> "", v |-> 0]
RBrace == [t |-> "}", k |-> "", v |-> 0]
Entry(k, v) == [t |-> "entry", k |-> k, v |-> v]

IdOrder == <<"", "a", "b", "c">>

\* json.dump(seen): "{", one token per key, "}"
Dump(m) ==
    LET keys == SelectSeq(IdOrder, LAMBDA k : k \in DOMAIN m)
    IN  <<LBrace>> \o [i \in 1..Len(keys) |-> Entry(keys[i], m[keys[i]])]
                   \o <<RBrace>>

WellFormed(data) ==
    /\ Len(data) >= 2
    /\ data[1] = LBrace
    /\ data[Len(data)] = RBrace
    /\ \A i \in 2..(Len(data) - 1) : data[i].t = "entry"

\* load_seen: {} when the file is absent or json.load raises
load_seen(f) ==
    IF f.exists /\ WellFormed(f.data)
    THEN LET es == SubSeq(f.data, 2, Len(f.data) - 1)
         IN  [k \in {es[i].k : i \in 1..Len(es)} |->
                 es[CHOOSE i \in 1..Len(es) :
                      /\ es[i].k = k
                      /\ \A j \in (i + 1)..Len(es) : es[j].k # k].v]
    ELSE EmptyMap

\* fallback_payload (the fields that tell it from a job payload)
FallbackPayload == [source |-> "fallback", id |-> "", questions |-> FALLBACK_QA]


-----------------------------------------------------------------------------
(* job_finder.py: find_jobs_and_notify, one action per step *)

\* the job the inner loop is at
CurJob == items[itemIdx]

\* a dedup check that never fires
AlreadySeen_Never(jid) == FALSE

\* `if jid in seen: continue`
AlreadySeen(jid) == jid \in DOMAIN seen

\* any HTTP answer taken for success (`if status:`)
Succeeded_AnyAnswer(status) == status # 0

\* `if status == 200:`
Succeeded(status) == status = OK

\* the mapping compared with itself: never saved
NeedsSave_Self == new_seen # new_seen

\* `if new_seen != seen:`
NeedsSave == new_seen # seen

\* the fallback sent whatever was dispatched
NeedsFallback_Always == TRUE

\* `if not any_sent:`
NeedsFallback == ~any_sent

\* leaving `for feed in FEEDS` body: the next feed, or the code after the loops
NextFeed ==
    IF feedIdx < Len(FEEDS)
    THEN /\ feedIdx' = feedIdx + 1
         /\ pc' = "feed"
         /\ items' = <<>>
         /\ itemIdx' = 1
    ELSE /\ pc' = "persist"
         /\ UNCHANGED <<feedIdx, items, itemIdx>>

\* leaving the body of `for job in items`
Advance ==
    IF itemIdx < Len(items)
    THEN /\ itemIdx' = itemIdx + 1
         /\ pc' = "item"
         /\ UNCHANGED <<feedIdx, items>>
    ELSE NextFeed

Tick == IF now < MaxClock THEN now + 1 ELSE now

NewRun ==
    /\ attempts' = [id \in Ids |-> 0]
    /\ ok200' = {}
    /\ non200' = {}
    /\ fallbacks' = <<>>
    /\ fetched' = {}
    /\ firstHit' = 0
    /\ lateSent' = FALSE
    /\ known' = known \cup fetched
    /\ owedStart' = owed
    /\ crashed' = FALSE
    /\ UNCHANGED owed

\* a run starts with the configuration present: seen = load_seen()
Start ==
    /\ pc \in {"idle", "done"}
    /\ conf' = TRUE
    /\ now' = Tick
    /\ seen' = load_seen(file)
    /\ new_seen' = load_seen(file)
    /\ any_sent' = FALSE
    /\ feedIdx' = 1
    /\ items' = <<>>
    /\ itemIdx' = 1
    /\ pc' = "feed"
    /\ NewRun
    /\ UNCHANGED <<file, wbuf, receiver>>

\* a run starts without WEBHOOK_URL or WEBHOOK_SECRET: logs and returns
\* before any local is bound
Abort ==
    /\ pc \in {"idle", "done"}
    /\ conf' = FALSE
    /\ now' = Tick
    /\ pc' = "done"
    /\ seen' = EmptyMap
    /\ new_seen' = EmptyMap
    /\ any_sent' = FALSE
    /\ feedIdx' = 1
    /\ items' = <<>>
    /\ itemIdx' = 1
    /\ NewRun
    /\ UNCHANGED <<file, wbuf, receiver>>

\* items = fetch_from_feed(feed)
Fetch(most) ==
    /\ pc = "feed"
    /\ \E got \in Results(most) :
          /\ fetched' = fetched \cup {got[i] : i \in 1..Len(got)}
          /\ firstHit' = IF firstHit = 0 /\ got # <<>> THEN feedIdx ELSE firstHit
          /\ IF got = <<>>
             THEN NextFeed
             ELSE /\ items' = got
                  /\ itemIdx' = 1
                  /\ pc' = "item"
                  /\ UNCHANGED feedIdx
    /\ UNCHANGED <<file, now, conf, seen, new_seen, any_sent, wbuf>>
    /\ UNCHANGED <<attempts, ok200, non200, fallbacks, lateSent>>
    /\ UNCHANGED <<longHist, receiver>>

SkipFrame ==
    /\ UNCHANGED <<file, now, conf, seen, new_seen, any_sent, wbuf>>
    /\ UNCHANGED <<runHist, longHist, receiver>>

\* `if not jid: continue`
SkipEmptyId ==
    /\ pc = "item"
    /\ CurJob = ""
    /\ Advance
    /\ SkipFrame

\* `if jid in seen: continue`
SkipSeen ==
    /\ pc = "item"
    /\ CurJob # ""
    /\ AlreadySeen(CurJob)
    /\ Advance
    /\ SkipFrame

\* `if not looks_relevant(...): continue`
SkipIrrelevant ==
    /\ pc = "item"
    /\ CurJob # ""
    /\ ~AlreadySeen(CurJob)
    /\ ~looks_relevant(Catalogue[CurJob])
    /\ Advance
    /\ SkipFrame

\* build the payload, send_signed_webhook, branch on the status
Dispatch(status) ==
    /\ pc = "item"
    /\ CurJob # ""
    /\ ~AlreadySeen(CurJob)
    /\ looks_relevant(Catalogue[CurJob])
    /\ IF Succeeded(status)
       THEN /\ any_sent' = TRUE
            /\ new_seen' = Put(new_seen, CurJob, now)
       ELSE UNCHANGED <<any_sent, new_seen>>
    /\ Advance
    /\ attempts' = [attempts EXCEPT ![CurJob] = @ + 1]
    /\ ok200' = IF status = 200 THEN ok200 \cup {CurJob} ELSE ok200
    /\ non200' = IF status = 200 THEN non200 ELSE non200 \cup {CurJob}
    /\ owed' = IF status = 200 THEN owed \ {CurJob}
               ELSE IF CurJob \in ok200 THEN owed
               ELSE owed \cup {CurJob}
    /\ lateSent' = (lateSent \/ (firstHit # 0 /\ feedIdx > firstHit))
    /\ UNCHANGED <<file, now, conf, seen, wbuf>>
    /\ UNCHANGED <<fallbacks, fetched, firstHit>>
    /\ UNCHANGED <<known, owedStart, crashed, receiver>>

FetchFeed == Fetch(MaxItems)

FetchShort == Fetch(LiveItems)

DispatchJob == \E status \in Statuses : Dispatch(status)

\* `if new_seen != seen:` is false: nothing is written
PersistSkip ==
    /\ pc = "persist"
    /\ ~NeedsSave
    /\ pc' = "fallback"
    /\ UNCHANGED <<file, now, conf, seen, new_seen, any_sent, feedIdx, items,
                   itemIdx, wbuf>>
    /\ UNCHANGED <<runHist, longHist, receiver>>

\* save_seen: open(SEEN_FILE, "w") truncates the file
SaveOpen ==
    /\ pc = "persist"
    /\ NeedsSave
    /\ file' = [exists |-> TRUE, data |-> <<>>]
    /\ wbuf' = Dump(new_seen)
    /\ pc' = "write"
    /\ UNCHANGED <<now, conf, seen, new_seen, any_sent, feedIdx, items, itemIdx>>
    /\ UNCHANGED <<runHist, longHist, receiver>>

\* save_seen: json.dump writes the next piece (the file holds a prefix of
\* the dump until the last piece is out)
SaveWrite ==
    /\ pc = "write"
    /\ wbuf # <<>>
    /\ file' = [file EXCEPT !.data = Append(@, Head(wbuf))]
    /\ wbuf' = Tail(wbuf)
    /\ UNCHANGED <<now, pc, conf, seen, new_seen, any_sent, feedIdx, items,
                   itemIdx>>
    /\ UNCHANGED <<runHist, longHist, receiver>>

\* save_seen: the with-block closes the file
SaveClose ==
    /\ pc = "write"
    /\ wbuf = <<>>
    /\ pc' = "fallback"
    /\ UNCHANGED <<file, now, conf, seen, new_seen, any_sent, feedIdx, items,
                   itemIdx, wbuf>>
    /\ UNCHANGED <<runHist, longHist, receiver>>

\* `if not any_sent:` send the fallback payload; its status is only logged
Fallback ==
    /\ pc = "fallback"
    /\ NeedsFallback
    /\ \E status \in Statuses :
          fallbacks' = Append(fallbacks,
                              [payload |-> FallbackPayload, status |-> status])
    /\ pc' = "done"
    /\ UNCHANGED <<file, now, conf, seen, new_seen, any_sent, feedIdx, items,
                   itemIdx, wbuf>>
    /\ UNCHANGED <<attempts, ok200, non200, fetched, firstHit, lateSent>>
    /\ UNCHANGED <<longHist, receiver>>

NoFallback ==
    /\ pc = "fallback"
    /\ ~NeedsFallback
    /\ pc' = "done"
    /\ UNCHANGED <<file, now, conf, seen, new_seen, any_sent, feedIdx, items,
                   itemIdx, wbuf>>
    /\ UNCHANGED <<runHist, longHist, receiver>>

\* the process is killed between open() and the close of save_seen
Crash ==
    /\ pc = "write"
    /\ pc' = "done"
    /\ crashed' = TRUE
    /\ UNCHANGED <<file, now, conf, seen, new_seen, any_sent, feedIdx, items,
                   itemIdx, wbuf>>
    /\ UNCHANGED <<runHist, known, owed, owedStart, receiver>>

-----------------------------------------------------------------------------
(* Signature codec: hmac.new(secret, body, sha256).hexdigest() *)

\* secrets a process can be configured with; "" is "not set"
Secrets == {"", "k1", "k2"}

\* raw request bodies; "junk" is not JSON
Bodies == {"b1", "b2", "junk"}

\* HMAC-SHA256 as lowercase hex: a collision-free table on the model's inputs
HexDigest(secret, data) ==
    CASE secret = "k1" /\ data = "b1"   -> <<"a", "3", "f">>
      [] secret = "k1" /\ data = "b2"   -> <<"c", "7", "1">>
      [] secret = "k1" /\ data = "junk" -> <<"e", "0", "9">>
      [] secret = "k2" /\ data = "b1"   -> <<"b", "4", "d">>
      [] secret = "k2" /\ data = "b2"   -> <<"f", "5", "2">>
      [] secret = "k2" /\ data = "junk" -> <<"d", "d", "6">>
      [] secret = ""   /\ data = "b1"   -> <<"8", "0", "2">>
      [] secret = ""   /\ data = "b2"   -> <<"1", "a", "a">>
      [] OTHER                          -> <<"6", "e", "0">>

\* job_finder.py: compute_hmac_hex
compute_hmac_hex(secret, data) == HexDigest(secret, data)

LowerChar(c) ==
    CASE c = "A" -> "a" [] c = "B" -> "b" [] c = "C" -> "c" [] c = "D" -> "d"
      [] c = "E" -> "e" [] c = "F" -> "f" [] c = "S" -> "s" [] c = "H" -> "h"
      [] OTHER -> c

UpperChar(c) ==
    CASE c = "a" -> "A" [] c = "b" -> "B" [] c = "c" -> "C" [] c = "d" -> "D"
      [] c = "e" -> "E" [] c = "f" -> "F" [] c = "s" -> "S" [] c = "h" -> "H"
      [] OTHER -> c

\* str.lower(), str.upper()
Lower(str) == [i \in 1..Len(str) |-> LowerChar(str[i])]
Upper(str) == [i \in 1..Len(str) |-> UpperChar(str[i])]

\* only the first character in upper case
Mixed(str) == [i \in 1..Len(str) |-> IF i = 1 THEN UpperChar(str[i]) ELSE str[i]]

\* str.strip()
RECURSIVE LStrip(_)
LStrip(str) ==
    IF str # <<>> /\ Head(str) = " " THEN LStrip(Tail(str)) ELSE str

RECURSIVE RStrip(_)
RStrip(str) ==
    IF str # <<>> /\ str[Len(str)] = " "
    THEN RStrip(SubSeq(str, 1, Len(str) - 1)) ELSE str

Strip(str) == RStrip(LStrip(str))

\* the literal "sha256="
Sha256Prefix == <<"s", "h", "a", "2", "5", "6", "=">>

\* str.startswith
StartsWith(str, prefix) ==
    /\ Len(str) >= Len(prefix)
    /\ SubSeq(str, 1, Len(prefix)) = prefix

\* str.split("=", 1)[1]: what follows the first "="
AfterFirstEq(str) ==
    LET i == CHOOSE n \in 1..Len(str) :
                 /\ str[n] = "="
                 /\ \A m \in 1..(n - 1) : str[m] # "="
    IN  SubSeq(str, i + 1, Len(str))

\* a header: absent (None) or a string
NoHeader == [present |-> FALSE, value |-> <<>>]
Header(str) == [present |-> TRUE, value |-> str]

\* test_sig_post.py: the hex encodings of a digest the script tries
candidates(hexsig) ==
    {hexsig, Sha256Prefix \o hexsig, Upper(hexsig), Sha256Prefix \o Upper(hexsig)}

\* what a client can put in X-Webhook-Signature
HeaderValues ==
    LET digests == {HexDigest(k, b) : k \in {"k1", "k2"}, b \in Bodies}
    IN  UNION {candidates(d)
                 \cup {Mixed(d), Sha256Prefix \o Mixed(d),
                       Upper(Sha256Prefix) \o d, <<" ">> \o d \o <<" ">>}
               : d \in digests}
        \cup {<<>>, <<"z", "z", "z">>, Sha256Prefix}

Headers == {NoHeader} \cup {Header(v) : v \in HeaderValues}

-----------------------------------------------------------------------------
(* telegram_webhook.py *)

\* a missing header treated as in the no-secret branch: accepted
valid_signature_NoneOk(secret, data, sig_header) ==
    LET computed == HexDigest(secret, data)
        s == Strip(sig_header.value)
    IN  \/ ~sig_header.present
        \/ s = computed
        \/ Lower(s) = computed
        \/ StartsWith(s, Sha256Prefix) /\ AfterFirstEq(s) = computed

\* valid_signature(body_bytes, sig_header), WEBHOOK_SECRET being `secret`
valid_signature(secret, data, sig_header) ==
    IF secret = ""
    THEN \* `return False if sig_header else True`
         ~(sig_header.present /\ sig_header.value # <<>>)
    ELSE LET computed == HexDigest(secret, data)
             s == Strip(sig_header.value)
         IN  IF ~sig_header.present THEN FALSE
             ELSE IF s = computed \/ Lower(s) = computed THEN TRUE
             ELSE IF StartsWith(s, Sha256Prefix) /\ AfterFirstEq(s) = computed
                  THEN TRUE
             ELSE FALSE

NoResponse == [status |-> 0, body |-> "", payload |-> ""]

\* `return jsonify({"error": "bad signature"}), 403`
Forbidden == [status |-> 403, body |-> "bad signature", payload |-> ""]

\* `if WEBHOOK_SECRET:` in notify
SecretPresent == rsecret # ""

\* request.get_json(force=True), None on failure
get_json(data) == IF data = "junk" THEN "None" ELSE data

SenderFrame == UNCHANGED <<sender, runHist, longHist>>

\* a POST /notify arrives: body and header are read
Receive ==
    /\ rpc \in {"idle", "done"}
    /\ \E b \in Bodies, h \in Headers :
          /\ body' = b
          /\ sig' = h
    /\ trail' = <<>>
    /\ resp' = NoResponse
    /\ rpc' = "check"
    /\ UNCHANGED rsecret
    /\ SenderFrame

\* secret present, valid_signature false: 403
Reject ==
    /\ rpc = "check"
    /\ SecretPresent
    /\ ~valid_signature(rsecret, body, sig)
    /\ trail' = Append(trail, "verify")
    /\ resp' = Forbidden
    /\ rpc' = "done"
    /\ UNCHANGED <<rsecret, body, sig>>
    /\ SenderFrame

\* secret present, valid_signature true: on to the payload
Verified ==
    /\ rpc = "check"
    /\ SecretPresent
    /\ valid_signature(rsecret, body, sig)
    /\ trail' = Append(trail, "verify")
    /\ rpc' = "parse"
    /\ UNCHANGED <<rsecret, body, sig, resp>>
    /\ SenderFrame

\* no secret: valid_signature is not called
Unchecked ==
    /\ rpc = "check"
    /\ ~SecretPresent
    /\ rpc' = "parse"
    /\ UNCHANGED <<rsecret, body, sig, trail, resp>>
    /\ SenderFrame

\* payload = request.get_json(force=True), logged; then 200
ParseAndAnswer ==
    /\ rpc = "parse"
    /\ trail' = Append(trail, "parse")
    /\ resp' = [status |-> 200, body |-> "ok", payload |-> get_json(body)]
    /\ rpc' = "done"
    /\ UNCHANGED <<rsecret, body, sig>>
    /\ SenderFrame

-----------------------------------------------------------------------------
(* Specifications *)

ReceiverIdle ==
    /\ rpc = "idle"
    /\ body = "b1"
    /\ sig = NoHeader
    /\ trail = <<>>
    /\ resp = NoResponse

SenderIdle ==
    /\ file = [exists |-> FALSE, data |-> <<>>]
    /\ now = 0
    /\ pc = "idle"
    /\ conf = FALSE
    /\ seen = EmptyMap
    /\ new_seen = EmptyMap
    /\ any_sent = FALSE
    /\ feedIdx = 1
    /\ items = <<>>
    /\ itemIdx = 1
    /\ wbuf = <<>>
    /\ attempts = [id \in Ids |-> 0]
    /\ ok200 = {}
    /\ non200 = {}
    /\ fallbacks = <<>>
    /\ fetched = {}
    /\ firstHit = 0
    /\ lateSent = FALSE
    /\ known = {}
    /\ owed = {}
    /\ owedStart = {}
    /\ crashed = FALSE

Init == SenderIdle /\ ReceiverIdle /\ rsecret = ""

Next ==
    \/ Start
    \/ Abort
    \/ FetchFeed
    \/ SkipEmptyId
    \/ SkipSeen
    \/ SkipIrrelevant
    \/ DispatchJob
    \/ PersistSkip
    \/ SaveOpen
    \/ SaveWrite
    \/ SaveClose
    \/ Fallback
    \/ NoFallback

Spec == Init /\ [][Next]_vars

\* the sender, with the process killed inside save_seen
NextCrash == Next \/ Crash

SpecCrash == Init /\ [][NextCrash]_vars

\* the sender under its scheduler: runs keep being started and each step of
\* a run is taken (weak fairness), and a posting that is dispatched again and
\* again is eventually answered 200 (strong fairness)
NextLive ==
    \/ Start
    \/ Abort
    \/ FetchShort
    \/ SkipEmptyId
    \/ SkipSeen
    \/ SkipIrrelevant
    \/ DispatchJob
    \/ PersistSkip
    \/ SaveOpen
    \/ SaveWrite
    \/ SaveClose
    \/ Fallback
    \/ NoFallback

Fairness ==
    /\ WF_vars(NextLive)
    /\ \A id \in Ids : SF_vars(Dispatch(OK) /\ CurJob = id)

LiveSpec == Init /\ [][NextLive]_vars /\ Fairness

\* the receiver, started with any WEBHOOK_SECRET, serving requests
InitRecv == SenderIdle /\ ReceiverIdle /\ rsecret \in Secrets

NextRecv ==
    \/ Receive
    \/ Reject
    \/ Verified
    \/ Unchecked
    \/ ParseAndAnswer

SpecRecv == InitRecv /\ [][NextRecv]_vars

-----------------------------------------------------------------------------
(* Properties of the sender *)

Range(f) == {f[x] : x \in DOMAIN f}

Relevant(id) == id # "" /\ looks_relevant(Catalogue[id])

\* the Seen-Set as the next load_seen would return it
Persisted == load_seen(file)

\* the run is over (and was not an abort on missing configuration)
RunOver == pc = "done" /\ conf /\ ~crashed

\* C1: an id is in the in-memory mapping, and once the run is over in the
\* persisted Seen-Set, only if it was in the loaded Seen-Set or one of its
\* dispatches returned 200 in this run; an id that was not seen before and
\* whose dispatches returned only other statuses (500, 0) is absent from the
\* Seen-Set saved by the run.
C1_SeenOnlyAfter200 ==
    /\ \A id \in DOMAIN new_seen : id \in DOMAIN seen \/ id \in ok200
    /\ RunOver =>
          /\ \A id \in DOMAIN Persisted : id \in DOMAIN seen \/ id \in ok200
          /\ \A id \in non200 \ ok200 :
                id \notin DOMAIN seen =>
                    id \notin DOMAIN Persisted /\ id \notin DOMAIN new_seen

\* a run that is over, in which "a" got a 200 and is saved, and "b" got only
\* failures and is not
C1_Witness ==
    /\ RunOver
    /\ "a" \in ok200 /\ "a" \notin DOMAIN seen /\ "a" \in DOMAIN Persisted
    /\ "b" \in non200 \ ok200 /\ "b" \notin DOMAIN Persisted

\* C5 as stated: a run that fetches no posting the earlier runs did not fetch
\* makes zero dispatches.
C5_SecondRunSilent ==
    (RunOver /\ known # {} /\ fetched = known) =>
        \A id \in Ids : attempts[id] = 0

\* C5 as amended: no posting whose id is in the loaded Seen-Set is ever
\* dispatched, and a posting that earlier runs already fetched is dispatched
\* only if its earlier dispatches all failed (it never got a 200).
C5_SeenNeverDispatched ==
    \A id \in Ids :
        attempts[id] > 0 =>
            /\ id \notin DOMAIN seen
            /\ id \in known => id \in owedStart

\* a second run that fetched what the first fetched, "a" being in the
\* Seen-Set, and dispatched nothing
C5_Witness ==
    /\ RunOver
    /\ "a" \in known /\ fetched = known
    /\ "a" \in DOMAIN seen
    /\ \A id \in Ids : attempts[id] = 0

\* C6: within one run no id gets a second dispatch attempt, and every
\* fetched, relevant, not-yet-seen id gets exactly one.
C6_OneAttemptPerId ==
    /\ \A id \in Ids : attempts[id] <= 1
    /\ RunOver =>
          \A id \in fetched :
              (Relevant(id) /\ id \notin DOMAIN seen) => attempts[id] = 1

\* C7: the fallback payload is dispatched only at the end of the run, exactly
\* once when no dispatch returned 200 and not at all otherwise; when it was
\* dispatched the in-memory mapping and the persisted Seen-Set are the loaded
\* Seen-Set; and when no posting passed filtering the Seen-Set is unchanged.
C7_FallbackRule ==
    /\ pc # "done" => fallbacks = <<>>
    /\ \A i \in 1..Len(fallbacks) :
          /\ fallbacks[i].payload.source = "fallback"
          /\ fallbacks[i].payload.questions = FALLBACK_QA
    /\ RunOver =>
          /\ Len(fallbacks) = (IF ok200 = {} THEN 1 ELSE 0)
          /\ fallbacks # <<>> => (new_seen = seen /\ Persisted = seen)
          /\ (\A id \in Ids : attempts[id] = 0) => Persisted = seen

\* a run over a non-empty Seen-Set in which postings were fetched, none passed
\* filtering, and the fallback went out
C7_Witness ==
    /\ RunOver
    /\ seen # EmptyMap
    /\ fetched # {}
    /\ \A id \in Ids : attempts[id] = 0
    /\ Len(fallbacks) = 1

\* C8: a posting whose dispatches failed and that is fetched again is
\* dispatched again (the loop does not pass it by); and a posting that keeps
\* being fetched ends up in the persisted Seen-Set.
C8_RetriedUntilNotified ==
    /\ [][(pc = "item" /\ CurJob \in owed /\ attempts[CurJob] = 0)
              => attempts'[CurJob] = 1]_vars
    /\ \A id \in {"a", "b"} :
          ([]<>(pc = "item" /\ CurJob = id)) => <>(id \in DOMAIN Persisted)

\* "a" failed in an earlier run, got its 200 in this one and is persisted
C8_Witness ==
    /\ RunOver
    /\ "a" \in owedStart
    /\ "a" \in ok200
    /\ "a" \in DOMAIN Persisted

\* C9: first match wins: no posting of a feed that comes after the first
\* feed with a non-empty result is dispatched.
C9_FirstMatchWins == ~lateSent

\* C10: after a kill inside save_seen the next load_seen returns the mapping
\* saved before or the new mapping.
C10_CrashSafe == crashed => (Persisted = seen \/ Persisted = new_seen)

-----------------------------------------------------------------------------
(* Properties of the receiver *)

\* the header is the digest in an encoding the spec accepts: bare hex or
\* "sha256=" + hex, the hex digits in any letter case
AcceptedEncoding(str, digest) ==
    \/ Lower(str) = digest
    \/ /\ StartsWith(str, Sha256Prefix)
       /\ Lower(SubSeq(str, Len(Sha256Prefix) + 1, Len(str))) = digest

\* C2: with no secret configured no request reaches payload parsing or gets
\* a 200.
C2_FailClosed ==
    ~SecretPresent => (rpc # "parse" /\ resp.status # 200)

\* C3: with a secret configured, a header that is the digest of the raw body,
\* bare or prefixed, in any letter case, is accepted.
C3_AcceptsAllEncodings ==
    (/\ SecretPresent
     /\ rpc = "done"
     /\ sig.present
     /\ AcceptedEncoding(sig.value, HexDigest(rsecret, body)))
        => resp.status = 200

\* C4: with a secret configured, a request whose header is absent or is not
\* an accepted encoding of the digest of the raw body (surrounding whitespace
\* not being part of the header value) gets the 403 with the generic body
\* and never reaches parsing; parsing happens only after the signature
\* check, and no check ever follows parsing.
C4_BadSignatureRejected ==
    LET good == /\ sig.present
                /\ AcceptedEncoding(Strip(sig.value), HexDigest(rsecret, body))
    IN  /\ \A i, j \in 1..Len(trail) :
              (trail[i] = "parse" /\ trail[j] = "verify") => j < i
        /\ SecretPresent =>
              /\ rpc = "parse" => (trail = <<"verify">> /\ good)
              /\ "parse" \in Range(trail) =>
                    (trail = <<"verify", "parse">> /\ good)
              /\ (rpc = "done" /\ ~good) =>
                    (resp = Forbidden /\ trail = <<"verify">>)

\* a request signed for another body, answered 403 without parsing
C4_Witness ==
    /\ SecretPresent
    /\ rpc = "done"
    /\ body = "b1"
    /\ sig = Header(compute_hmac_hex(rsecret, "b2"))
    /\ resp = Forbidden
    /\ "parse" \notin Range(trail)

=============================================================================
